---- MODULE Spec2Model ----
(***************************************************************************)
(* Model of hackbright.py: the record accessors over the students,        *)
(* projects and grades tables, and the command loop handle_input.         *)
(*                                                                         *)
(* A table is the sequence of its rows in insertion order.  A printed     *)
(* line is the tuple of the pieces its f-string is built from.  An input  *)
(* line is the sequence of its maximal runs: a word, or one whitespace    *)
(* character.  An uncaught exception ends the process (state FAULTED);    *)
(* the tables live in the datastore and outlive the process.              *)
(***************************************************************************)
EXTENDS Integers, Sequences, FiniteSets, TLC

VARIABLES
    students,       \* rows of table students: first_name, last_name, github
    projects,       \* rows of table projects: title, description, max_grade
    grades,         \* rows of table grades: student_github, project_title, grade
    state,          \* "RUNNING", "TERMINATED" (loop left on quit) or "FAULTED"
    input_string,   \* the line the last call read from the prompt, or NoInput
    output,         \* the lines the last call printed
    lastCall,       \* the accessor (or bare loop iteration) last executed
    prevWrite       \* the completed write accessor lastCall immediately followed, or NoCall

vars == <<students, projects, grades, state, input_string, output, lastCall, prevWrite>>

tables == <<students, projects, grades>>

----------------------------------------------------------------------------
(* Bounds and input domains *)

MaxStudents == 2

MaxGrades == 2

Handles == {"jhacks", "sdevelops"}

Titles == {"Markdown", "Blockly"}

NewStudentInputs ==
    { <<"Jane", "Hacker", "jhacks">>,
      <<"Jada", "Hacker", "jhacks">>,
      <<"Sarah", "Developer", "sdevelops">> }

GradeInputs ==
    { <<"jhacks", "Markdown", 98>>,
      <<"jhacks", "Markdown", 70>>,
      <<"jhacks", "Blockly", 70>>,
      <<"sdevelops", "Markdown", 98>> }

Whitespace == {" ", "\t"}

CommandWords ==
    {"student", "new_student", "quit", "project", "grade", "assign_grade", "foobar"}

DispatchedWords == {"student", "new_student"}

ArgLists ==
    { <<>>, <<"jhacks">>, <<"sdevelops">>, <<"Jane", "Hacker">>,
      <<"Jane", "Hacker", "jhacks", "now">> } \cup NewStudentInputs

\* The words of a line, separated by single blanks.
Join(words) ==
    [i \in 1..(IF words = <<>> THEN 0 ELSE 2 * Len(words) - 1) |->
        IF i % 2 = 1 THEN words[(i + 1) \div 2] ELSE " "]

\* The lines typed at the prompt: every dispatched command with every
\* argument list, the other words bare and with arguments, some lines with
\* leading and trailing whitespace, and the lines without a word.
InputLines ==
    { Join(<<c>> \o a) : c \in DispatchedWords, a \in ArgLists }
        \cup { Join(<<c>> \o a) : c \in CommandWords \ DispatchedWords,
                                  a \in {<<>>, <<"jhacks", "Markdown", "98">>} }
        \cup { <<"\t">> \o Join(<<c>> \o a) \o <<" ", " ">> :
                 c \in {"student", "quit", "foobar"}, a \in {<<>>, <<"jhacks">>} }
        \cup { <<>>, <<" ">>, <<" ", "\t">> }

----------------------------------------------------------------------------
(* Values *)

None == <<>>

NULL == <<>>

NoInput == <<"<no input>">>

Call(op, args, ok) == [op |-> op, args |-> args, ok |-> ok]

NoCall == Call("none", <<>>, TRUE)

InitialProjects ==
    << [title |-> "Markdown", description |-> "Tributes", max_grade |-> 50] >>

----------------------------------------------------------------------------
(* Queries *)

\* StudentQuery with the WHERE clause left out.
StudentQuery_NoWhere(github) ==
    { <<students[i].first_name, students[i].last_name, students[i].github>> :
        i \in DOMAIN students }

\* SELECT first_name, last_name, github FROM students WHERE github = :github
StudentQuery(github) ==
    { <<students[i].first_name, students[i].last_name, students[i].github>> :
        i \in { j \in DOMAIN students : students[j].github = github } }

\* SELECT title, description, max_grade FROM projects WHERE title = :title
ProjectQuery(title) ==
    { <<projects[i].title, projects[i].description, projects[i].max_grade>> :
        i \in { j \in DOMAIN projects : projects[j].title = title } }

\* students LEFT JOIN grades ON (grades.student_github = students.github):
\* pairs <<student index, grade index>>, grade index 0 for the all-NULL
\* right side of a student no grades row joins.
LeftJoin ==
    { <<s, g>> \in (DOMAIN students) \X (DOMAIN grades) :
        grades[g].student_github = students[s].github }
    \cup
    { <<s, 0>> : s \in { t \in DOMAIN students :
        \A g \in DOMAIN grades : grades[g].student_github # students[t].github } }

\* GradeWhere without the comparison of the project title.
GradeWhere_NoTitle(j, github, title) ==
    /\ j[2] # 0
    /\ grades[j[2]].student_github = github

\* GradeWhere filtering the student on the outer table and keeping the
\* all-NULL right side, as a left join of "every student, graded or not".
GradeWhere_KeepNull(j, github, title) ==
    /\ students[j[1]].github = github
    /\ j[2] # 0 => grades[j[2]].project_title = title

\* WHERE grades.project_title = :title AND grades.student_github = :github
\* (a comparison with NULL is not true, so an all-NULL right side is dropped)
GradeWhere(j, github, title) ==
    /\ j[2] # 0
    /\ grades[j[2]].project_title = title
    /\ grades[j[2]].student_github = github

\* SELECT first_name, last_name, grade of the joined rows the WHERE keeps;
\* the grade column is <<grade>>, or NULL on an all-NULL right side.
GradeQuery(github, title) ==
    { <<students[j[1]].first_name, students[j[1]].last_name,
        IF j[2] = 0 THEN NULL ELSE <<grades[j[2]].grade>> >> :
        j \in { k \in LeftJoin : GradeWhere(k, github, title) } }

\* cursor.fetchone(): a row of the result (the query has no ORDER BY, so
\* which one is the datastore's choice), or None for an empty result.
fetchone(result) == IF result = {} THEN {None} ELSE result

----------------------------------------------------------------------------
(* Outcomes of a call *)

\* The call ran to its end and printed out.
Return(call, out, st) ==
    /\ lastCall' = call
    /\ output' = out
    /\ state' = st
    /\ prevWrite' = IF lastCall.op \in {"make_new_student", "assign_grade"} /\ lastCall.ok
                    THEN lastCall ELSE NoCall

\* The call raised; nothing catches it.
Raise(op, args) == Return(Call(op, args, FALSE), <<>>, "FAULTED")

----------------------------------------------------------------------------
(* Record accessors *)

\* get_student_by_github reporting a missing row instead of unpacking it.
get_student_by_github_checked(github) ==
    /\ \E row \in fetchone(StudentQuery(github)) :
         IF row = None
         THEN Return(Call("get_student_by_github", <<github>>, TRUE),
                     << <<"Student not found:", github>> >>, "RUNNING")
         ELSE Return(Call("get_student_by_github", <<github>>, TRUE),
                     << <<"Student:", row[1], row[2]>>,
                        <<"GitHub account:", row[3]>> >>,
                     "RUNNING")
    /\ UNCHANGED tables

get_student_by_github(github) ==
    /\ \E row \in fetchone(StudentQuery(github)) :
         IF row = None
         THEN Raise("get_student_by_github", <<github>>)
         ELSE Return(Call("get_student_by_github", <<github>>, TRUE),
                     << <<"Student:", row[1], row[2]>>,
                        <<"GitHub account:", row[3]>> >>,
                     "RUNNING")
    /\ UNCHANGED tables

\* make_new_student binding the two name columns the wrong way round.
make_new_student_swapped(first_name, last_name, github) ==
    /\ Len(students) < MaxStudents
    /\ students' = Append(students, [first_name |-> last_name,
                                     last_name |-> first_name,
                                     github |-> github])
    /\ Return(Call("make_new_student", <<first_name, last_name, github>>, TRUE),
              << <<"Successfully added", first_name, last_name, ".">> >>,
              "RUNNING")
    /\ UNCHANGED <<projects, grades>>

make_new_student(first_name, last_name, github) ==
    /\ Len(students) < MaxStudents
    /\ students' = Append(students, [first_name |-> first_name,
                                     last_name |-> last_name,
                                     github |-> github])
    /\ Return(Call("make_new_student", <<first_name, last_name, github>>, TRUE),
              << <<"Successfully added", first_name, last_name, ".">> >>,
              "RUNNING")
    /\ UNCHANGED <<projects, grades>>

get_project_by_title(title) ==
    /\ \E row \in fetchone(ProjectQuery(title)) :
         IF row = None
         THEN Raise("get_project_by_title", <<title>>)
         ELSE Return(Call("get_project_by_title", <<title>>, TRUE),
                     << <<row[1], ":", row[2]>>,
                        <<"Max grade:", ToString(row[3])>> >>,
                     "RUNNING")
    /\ UNCHANGED tables

get_grade_by_github_title(github, title) ==
    /\ \E row \in fetchone(GradeQuery(github, title)) :
         IF row = None
         THEN Raise("get_grade_by_github_title", <<github, title>>)
         ELSE Return(Call("get_grade_by_github_title", <<github, title>>, TRUE),
                     << <<row[1], row[2], "'s", title, "project received",
                          IF row[3] = NULL THEN "None" ELSE ToString(row[3][1]),
                          "points">> >>,
                     "RUNNING")
    /\ UNCHANGED tables

\* assign_grade overwriting the grade of a pair that has one already.
assign_grade_upsert(github, title, grade) ==
    LET row == [student_github |-> github, project_title |-> title, grade |-> grade]
        old == { i \in DOMAIN grades : /\ grades[i].student_github = github
                                       /\ grades[i].project_title = title }
    IN  /\ Len(grades) < MaxGrades
        /\ grades' = IF old = {} THEN Append(grades, row)
                     ELSE [i \in DOMAIN grades |-> IF i \in old THEN row ELSE grades[i]]
        /\ Return(Call("assign_grade", <<github, title, grade>>, TRUE),
                  << <<"Successfully graded", github, "'s", title, "project",
                       ToString(grade), "points.">> >>,
                  "RUNNING")
        /\ UNCHANGED <<students, projects>>

assign_grade(github, title, grade) ==
    /\ Len(grades) < MaxGrades
    /\ grades' = Append(grades, [student_github |-> github,
                                 project_title |-> title,
                                 grade |-> grade])
    /\ Return(Call("assign_grade", <<github, title, grade>>, TRUE),
              << <<"Successfully graded", github, "'s", title, "project",
                   ToString(grade), "points.">> >>,
              "RUNNING")
    /\ UNCHANGED <<students, projects>>

----------------------------------------------------------------------------
(* Command loop *)

\* Split as split(" ") would: a line without a word yields one empty token.
Split_KeepEmpty(line) ==
    IF SelectSeq(line, LAMBDA x : x \notin Whitespace) = <<>>
    THEN <<"">>
    ELSE SelectSeq(line, LAMBDA x : x \notin Whitespace)

\* input_string.split(): the words of the line, whitespace runs dropped.
Split(line) == SelectSeq(line, LAMBDA x : x \notin Whitespace)

\* Branch with a loop that runs only while the command is a known one.
Branch_UnknownQuits(command) ==
    IF command = "student" THEN "student"
    ELSE IF command = "new_student" THEN "new_student"
    ELSE "quit"

\* Branch with an else that lacks the test command != "quit" and a loop
\* that goes on.
Branch_QuitInvalid(command) ==
    IF command = "student" THEN "student"
    ELSE IF command = "new_student" THEN "new_student"
    ELSE "invalid"

\* The branch the if/elif/else chain takes, and "quit" where the else
\* prints nothing and the loop condition command != "quit" ends the loop.
Branch(command) ==
    IF command = "student" THEN "student"
    ELSE IF command = "new_student" THEN "new_student"
    ELSE IF command # "quit" THEN "invalid"
    ELSE "quit"

\* Unpack3 taking the first three arguments and ignoring the rest.
Unpack3_Slice(args) == IF Len(args) < 3 THEN None ELSE SubSeq(args, 1, 3)

\* first_name, last_name, github = args: the three values, or None where
\* the unpacking raises ValueError.
Unpack3(args) == IF Len(args) # 3 THEN None ELSE args

\* One iteration of the while loop of handle_input on the line read.
handle_input(line) ==
    LET tokens == Split(line) IN
    IF tokens = <<>>
    THEN \* tokens[0] raises IndexError
         Raise("handle_input", <<>>) /\ UNCHANGED tables
    ELSE LET command == tokens[1]
             args == SubSeq(tokens, 2, Len(tokens))
         IN  CASE Branch(command) = "student" ->
                    IF args = <<>>
                    THEN \* args[0] raises IndexError
                         Raise("handle_input", <<>>) /\ UNCHANGED tables
                    ELSE get_student_by_github(args[1])
               [] Branch(command) = "new_student" ->
                    IF Unpack3(args) = None
                    THEN Raise("handle_input", <<>>) /\ UNCHANGED tables
                    ELSE make_new_student(Unpack3(args)[1], Unpack3(args)[2],
                                          Unpack3(args)[3])
               [] Branch(command) = "invalid" ->
                    /\ Return(Call("handle_input", <<>>, TRUE),
                              << <<"Invalid Entry. Try again.">> >>, "RUNNING")
                    /\ UNCHANGED tables
               [] Branch(command) = "quit" ->
                    /\ Return(Call("handle_input", <<>>, TRUE), <<>>, "TERMINATED")
                    /\ UNCHANGED tables

----------------------------------------------------------------------------
(* Actions *)

Init ==
    /\ students = <<>>
    /\ projects = InitialProjects
    /\ grades = <<>>
    /\ state = "RUNNING"
    /\ input_string = NoInput
    /\ output = <<>>
    /\ lastCall = NoCall
    /\ prevWrite = NoCall

FindStudentByHandle ==
    /\ state = "RUNNING"
    /\ \E github \in Handles : get_student_by_github(github)
    /\ input_string' = NoInput

CreateStudent ==
    /\ state = "RUNNING"
    /\ \E s \in NewStudentInputs : make_new_student(s[1], s[2], s[3])
    /\ input_string' = NoInput

FindProjectByTitle ==
    /\ state = "RUNNING"
    /\ \E title \in Titles : get_project_by_title(title)
    /\ input_string' = NoInput

FindGradeByHandleAndTitle ==
    /\ state = "RUNNING"
    /\ \E github \in Handles, title \in Titles : get_grade_by_github_title(github, title)
    /\ input_string' = NoInput

AssignGrade ==
    /\ state = "RUNNING"
    /\ \E g \in GradeInputs : assign_grade(g[1], g[2], g[3])
    /\ input_string' = NoInput

CommandLoop ==
    /\ state = "RUNNING"
    /\ \E line \in InputLines :
         /\ input_string' = line
         /\ handle_input(line)

\* The program is run again over the same datastore.
Main ==
    /\ state \in {"TERMINATED", "FAULTED"}
    /\ state' = "RUNNING"
    /\ input_string' = NoInput
    /\ output' = <<>>
    /\ lastCall' = NoCall
    /\ prevWrite' = NoCall
    /\ UNCHANGED tables

Next ==
    \/ FindStudentByHandle
    \/ CreateStudent
    \/ FindProjectByTitle
    \/ FindGradeByHandleAndTitle
    \/ AssignGrade
    \/ CommandLoop
    \/ Main

Spec == Init /\ [][Next]_vars

----------------------------------------------------------------------------
(* Vocabulary of the properties *)

\* The words of an input line.
Words(line) == SelectSeq(line, LAMBDA x : x \notin Whitespace)

\* The last step read a line from the prompt.
ReadLine == input_string # NoInput

\* The stored rows with a GitHub handle.
RowsOf(github) == { i \in DOMAIN students : students[i].github = github }

\* The stored grades rows of a (handle, title) pair.
GradesOf(github, title) ==
    { i \in DOMAIN grades : /\ grades[i].student_github = github
                            /\ grades[i].project_title = title }

\* The printed lines that start with "Student:".
StudentLines == { i \in DOMAIN output : output[i][1] = "Student:" }

\* Exactly one "Student:" line was printed and it holds these names.
PrintsStudent(first_name, last_name) ==
    /\ Cardinality(StudentLines) = 1
    /\ \A i \in StudentLines : output[i] = <<"Student:", first_name, last_name>>

LastIs(op) == lastCall.op = op

----------------------------------------------------------------------------
(* C1 *)

\* C1 as stated: after a lookup by a handle, every stored row with that
\* handle sees exactly one "Student:" line holding its own first and last name.
C1_EveryRowPrinted ==
    (LastIs("get_student_by_github") /\ RowsOf(lastCall.args[1]) # {}) =>
        /\ lastCall.ok
        /\ \A i \in RowsOf(lastCall.args[1]) :
               PrintsStudent(students[i].first_name, students[i].last_name)

\* C1 amended: a lookup by the handle of a stored row prints exactly one
\* "Student:" line, and it holds the first and last name of a stored row with
\* that handle (the row's own when no other row shares the handle).
C1_SomeRowPrinted ==
    (LastIs("get_student_by_github") /\ RowsOf(lastCall.args[1]) # {}) =>
        /\ lastCall.ok
        /\ state = "RUNNING"
        /\ \E i \in RowsOf(lastCall.args[1]) :
               PrintsStudent(students[i].first_name, students[i].last_name)

\* A lookup by a handle that two stored rows share has printed.
C1_Witness ==
    /\ LastIs("get_student_by_github")
    /\ lastCall.ok
    /\ Cardinality(RowsOf(lastCall.args[1])) = 2

----------------------------------------------------------------------------
(* C2 *)

FoundAfterCreate ==
    /\ prevWrite.op = "make_new_student"
    /\ LastIs("get_student_by_github")
    /\ lastCall.args[1] = prevWrite.args[3]

\* C2 as stated: createStudent(first, last, handle) followed immediately by
\* findStudentByHandle(handle) prints the just-inserted first and last name.
C2_PrintsInserted ==
    FoundAfterCreate =>
        lastCall.ok /\ PrintsStudent(prevWrite.args[1], prevWrite.args[2])

\* C2 amended: createStudent(first, last, handle) followed immediately by
\* findStudentByHandle(handle) prints the first and last name of a stored
\* row with that handle: the just-inserted name when no other row has it.
C2_PrintsRowOfHandle ==
    FoundAfterCreate =>
        /\ lastCall.ok
        /\ \E i \in RowsOf(lastCall.args[1]) :
               PrintsStudent(students[i].first_name, students[i].last_name)
        /\ Cardinality(RowsOf(lastCall.args[1])) = 1 =>
               PrintsStudent(prevWrite.args[1], prevWrite.args[2])

\* The lookup followed the insert of the only row with its handle, beside
\* a row of another handle.
C2_Witness ==
    /\ FoundAfterCreate
    /\ lastCall.ok
    /\ Cardinality(RowsOf(lastCall.args[1])) = 1
    /\ Len(students) = 2

----------------------------------------------------------------------------
(* C6 *)

\* C6: findStudentByHandle with a handle no stored row has ends in an
\* uncaught fault, prints nothing and leaves the three tables as they were.
C6_MissingHandleFaults ==
    [][(lastCall'.op = "get_student_by_github" /\ RowsOf(lastCall'.args[1]) = {}) =>
           /\ ~lastCall'.ok
           /\ state' = "FAULTED"
           /\ output' = <<>>
           /\ tables' = tables]_vars

\* A lookup by a handle no row has, on a table that holds a row, has faulted.
C6_Witness ==
    /\ LastIs("get_student_by_github")
    /\ RowsOf(lastCall.args[1]) = {}
    /\ students # <<>>
    /\ state = "FAULTED"

----------------------------------------------------------------------------
(* C3 *)

\* A printed line holds "{g} points".
PrintsPoints(g) ==
    \E i \in DOMAIN output : \E k \in 1..(Len(output[i]) - 1) :
        output[i][k] = ToString(g) /\ output[i][k + 1] = "points"

\* A printed line holds the null grade, "None points".
PrintsNullGrade ==
    \E i \in DOMAIN output : \E k \in 1..(Len(output[i]) - 1) :
        output[i][k] = "None" /\ output[i][k + 1] = "points"

LookedUpAfterAssign ==
    /\ prevWrite.op = "assign_grade"
    /\ LastIs("get_grade_by_github_title")
    /\ lastCall.args = <<prevWrite.args[1], prevWrite.args[2]>>

\* C3 as stated: assignGrade(handle, title, g) followed immediately by the
\* grade lookup of the same pair prints a message holding "{g} points".
C3_PrintsAssigned ==
    LookedUpAfterAssign => lastCall.ok /\ PrintsPoints(prevWrite.args[3])

\* C3 amended: assignGrade(handle, title, g) followed immediately by the
\* grade lookup of the same pair ends in a fault when no students row has
\* the handle; otherwise it prints a message holding "{g'} points" for the
\* grade g' of a stored grades row of that pair, which is g when the pair
\* has no other grades row.
C3_PrintsGradeOfPair ==
    LookedUpAfterAssign =>
        LET github == lastCall.args[1]
            title == lastCall.args[2]
        IN  IF RowsOf(github) = {}
            THEN ~lastCall.ok /\ state = "FAULTED" /\ output = <<>>
            ELSE /\ lastCall.ok
                 /\ \E i \in GradesOf(github, title) : PrintsPoints(grades[i].grade)
                 /\ Cardinality(GradesOf(github, title)) = 1 =>
                        PrintsPoints(prevWrite.args[3])

\* The lookup followed the assignment of the only grade of its pair, to a
\* stored student who has a grade on another project too, and printed.
C3_Witness ==
    /\ LookedUpAfterAssign
    /\ lastCall.ok
    /\ Cardinality(GradesOf(lastCall.args[1], lastCall.args[2])) = 1
    /\ Len(grades) = 2
    /\ \A i \in DOMAIN grades : grades[i].student_github = lastCall.args[1]

----------------------------------------------------------------------------
(* C8 *)

\* C8: the grade lookup prints its message exactly when a grades row of the
\* pair and a students row of the handle exist, the message then holds the
\* grade of such a grades row and never a null grade; in every other case
\* it prints nothing and ends in an uncaught fault.
C8_GradeLookup ==
    LastIs("get_grade_by_github_title") =>
        LET github == lastCall.args[1]
            title == lastCall.args[2]
        IN  /\ lastCall.ok <=> (GradesOf(github, title) # {} /\ RowsOf(github) # {})
            /\ lastCall.ok =>
                 /\ Len(output) = 1
                 /\ ~PrintsNullGrade
                 /\ \E i \in GradesOf(github, title) : PrintsPoints(grades[i].grade)
                 /\ \E i \in RowsOf(github) :
                        SubSeq(output[1], 1, 2) =
                            <<students[i].first_name, students[i].last_name>>
            /\ ~lastCall.ok => state = "FAULTED" /\ output = <<>>

\* The lookup faulted for a stored student who has a grade on another
\* project but none on the title asked for.
C8_Witness ==
    /\ LastIs("get_grade_by_github_title")
    /\ ~lastCall.ok
    /\ RowsOf(lastCall.args[1]) # {}
    /\ GradesOf(lastCall.args[1], lastCall.args[2]) = {}
    /\ \E i \in DOMAIN grades : grades[i].student_github = lastCall.args[1]

----------------------------------------------------------------------------
(* C7 *)

IsPrefix(s, t) == Len(s) <= Len(t) /\ SubSeq(t, 1, Len(s)) = s

\* C7: no step modifies or removes a stored row.  A read accessor or a loop
\* iteration that calls no write accessor leaves the three tables as they
\* were, make_new_student appends one students row built from its arguments
\* and nothing else, assign_grade appends one grades row built from its
\* arguments and nothing else, and projects never changes.
C7_RowsOnlyAppended ==
    [][/\ IsPrefix(students, students')
       /\ IsPrefix(grades, grades')
       /\ projects' = projects
       /\ lastCall'.op = "make_new_student" =>
              /\ students' = Append(students, [first_name |-> lastCall'.args[1],
                                               last_name |-> lastCall'.args[2],
                                               github |-> lastCall'.args[3]])
              /\ grades' = grades
       /\ lastCall'.op = "assign_grade" =>
              /\ grades' = Append(grades, [student_github |-> lastCall'.args[1],
                                           project_title |-> lastCall'.args[2],
                                           grade |-> lastCall'.args[3]])
              /\ students' = students
       /\ lastCall'.op \notin {"make_new_student", "assign_grade"} =>
              tables' = tables]_vars

\* A second grade of a pair was assigned beside the first.
C7_Witness ==
    /\ LastIs("assign_grade")
    /\ Len(grades) = 2
    /\ Cardinality(GradesOf(lastCall.args[1], lastCall.args[2])) = 2
    /\ students # <<>>

----------------------------------------------------------------------------
(* Command loop properties *)

\* The first token of a line and the tokens after it.
FirstWord(line) == Words(line)[1]

Arguments(line) == SubSeq(Words(line), 2, Len(Words(line)))

InvalidEntry == << <<"Invalid Entry. Try again.">> >>

----------------------------------------------------------------------------
(* C4 *)

\* C4: a loop iteration on a line whose first token is none of student,
\* new_student and quit leaves the three tables as they were, prints
\* "Invalid Entry. Try again." and nothing else, calls no accessor and
\* leaves the loop RUNNING.
C4_UnrecognizedCommand ==
    [][(/\ input_string' # NoInput
        /\ Words(input_string') # <<>>
        /\ FirstWord(input_string') \notin {"student", "new_student", "quit"}) =>
           /\ tables' = tables
           /\ output' = InvalidEntry
           /\ lastCall' = Call("handle_input", <<>>, TRUE)
           /\ state' = "RUNNING"]_vars

\* The loop has answered an assign_grade line on a datastore that holds a
\* student and a grade.
C4_Witness ==
    /\ ReadLine
    /\ Words(input_string) = <<"assign_grade", "jhacks", "Markdown", "98">>
    /\ output = InvalidEntry
    /\ state = "RUNNING"
    /\ students # <<>>
    /\ grades # <<>>

----------------------------------------------------------------------------
(* C5 *)

\* C5: the loop starts RUNNING; an iteration on a line whose first token is
\* quit ends TERMINATED with no output, no accessor call and no change of a
\* table; a TERMINATED loop reads no further line; a step that ends
\* TERMINATED is an iteration on a quit line, and an iteration on any other
\* line that does not fault leaves the loop RUNNING.
C5_QuitTerminates ==
    /\ state = "RUNNING"
    /\ [][/\ (/\ input_string' # NoInput
              /\ Words(input_string') # <<>>
              /\ FirstWord(input_string') = "quit") =>
                 /\ state' = "TERMINATED"
                 /\ output' = <<>>
                 /\ lastCall' = Call("handle_input", <<>>, TRUE)
                 /\ tables' = tables
          /\ state = "TERMINATED" => input_string' = NoInput /\ state' = "RUNNING"
          /\ state' = "TERMINATED" =>
                 /\ input_string' # NoInput
                 /\ Words(input_string') # <<>>
                 /\ FirstWord(input_string') = "quit"
          /\ (/\ input_string' # NoInput
              /\ lastCall'.ok
              /\ FirstWord(input_string') # "quit") => state' = "RUNNING"]_vars

\* The loop has left on a quit line with leading and trailing whitespace,
\* after a student was added.
C5_Witness ==
    /\ state = "TERMINATED"
    /\ input_string = <<"\t", "quit", " ", " ">>
    /\ output = <<>>
    /\ students # <<>>

----------------------------------------------------------------------------
(* C9 *)

\* C9: a loop iteration on a new_student line with fewer or more than three
\* arguments faults before make_new_student is called, prints nothing and
\* leaves the tables as they were; with exactly three arguments it appends
\* the one students row (first, last, handle), prints "Successfully added
\* {first} {last}." and leaves the loop RUNNING.
C9_NewStudentArity ==
    [][(/\ input_string' # NoInput
        /\ Words(input_string') # <<>>
        /\ FirstWord(input_string') = "new_student") =>
           LET args == Arguments(input_string') IN
           IF Len(args) # 3
           THEN /\ lastCall' = Call("handle_input", <<>>, FALSE)
                /\ state' = "FAULTED"
                /\ output' = <<>>
                /\ tables' = tables
           ELSE /\ lastCall' = Call("make_new_student", args, TRUE)
                /\ state' = "RUNNING"
                /\ output' = << <<"Successfully added", args[1], args[2], ".">> >>
                /\ students' = Append(students, [first_name |-> args[1],
                                                 last_name |-> args[2],
                                                 github |-> args[3]])
                /\ <<projects, grades>>' = <<projects, grades>>]_vars

\* The loop has faulted on a new_student line with four arguments.
C9_Witness ==
    /\ ReadLine
    /\ Words(input_string) = <<"new_student", "Jane", "Hacker", "jhacks", "now">>
    /\ state = "FAULTED"
    /\ ~lastCall.ok

----------------------------------------------------------------------------
(* C10 *)

\* C10: a loop iteration on an empty or whitespace-only line, or on a
\* student line without an argument, ends in an uncaught fault raised by
\* the loop itself: no accessor is called, nothing is printed (no "Invalid
\* Entry. Try again.") and the tables are left as they were.
C10_NoTokenFaults ==
    [][(/\ input_string' # NoInput
        /\ \/ Words(input_string') = <<>>
           \/ Words(input_string') = <<"student">>) =>
           /\ lastCall' = Call("handle_input", <<>>, FALSE)
           /\ state' = "FAULTED"
           /\ output' = <<>>
           /\ tables' = tables]_vars

\* The loop has faulted on a line of two whitespace characters, on a
\* datastore that holds a student.
C10_Witness ==
    /\ input_string = <<" ", "\t">>
    /\ state = "FAULTED"
    /\ lastCall = Call("handle_input", <<>>, FALSE)
    /\ students # <<>>

====
